---- MODULE Spec2Model ----
(***************************************************************************)
(* Hotel Management System: entry point (main.py), authentication window   *)
(* and service (ui/auth.py), dashboard (ui/dashboard.py) and database      *)
(* helper (database/db.py), modelled as one state machine.                 *)
(*                                                                         *)
(* Strings are sequences of one-character strings.  A handler is one       *)
(* action: Tk runs a callback to completion on the single UI thread, and   *)
(* the message boxes it opens are modal.  The callbacks handed to the      *)
(* windows (on_success, on_logout) return normally, as the two callbacks   *)
(* of the repository (_demo_success, _demo_logout) do.                     *)
(***************************************************************************)
EXTENDS Integers, Sequences, FiniteSets, TLC

VARIABLES
    pc,               \* "start", "ImportError" or "Exception" (the script died),
                      \* "mainloop" (the loop waits for an event), "handled" (a
                      \* handler has returned) or "running" (a host without windows)
    entry,            \* the script that was run: "none", "main", "auth", "dashboard", "db"
    rootState,        \* the Tk root: "none", "normal" or "withdrawn"
    dbClass,          \* what DatabaseHelper names in ui/auth.py
    connection,       \* DatabaseHelper.connection: "None", "open" or "closed"
    connectorOutcome, \* what mysql.connector.connect did in the last connect()
    connectRet,       \* the last connect(): "none", "True", "False" or "raised"
    connectAttempts,  \* mysql.connector.connect calls made by the last connect()
    authWin,          \* AuthWindow.window: "none", "unbuilt" (the constructor was
                      \* left by an exception), "open" or "destroyed"
    on_success,       \* whether AuthWindow was given an on_success callback
    raised,           \* the frame on top: "in" (frame_signin) or "up" (frame_signup)
    btn_signin,       \* style of the Sign In tab button
    btn_signup,       \* style of the Sign Up tab button
    sub,              \* the fields of the last submission, as they were entered
    events,           \* what the last auth handler did, in order
    registered,       \* usernames for which register_user has returned True
    dashWin,          \* Dashboard.window: "none", "open" or "destroyed"
    dash_username,    \* Dashboard.username
    heading,          \* text of the welcome heading label
    on_logout,        \* whether Dashboard was given an on_logout callback
    dashArgs,         \* the username argument open_dashboard was called with, if any
    dashOp,           \* the dashboard handler that ran last: "none", "open_module", "logout"
    dashEvents,       \* what the last dashboard handler did, in order
    svc               \* the last direct call of an AuthService method, with its result

vars == <<pc, entry, rootState, dbClass, connection, connectorOutcome, connectRet,
          connectAttempts, authWin, on_success, raised, btn_signin, btn_signup, sub,
          events, registered, dashWin, dash_username, heading, on_logout, dashArgs,
          dashOp, dashEvents, svc>>

dbVars == <<dbClass, connection, connectorOutcome, connectRet, connectAttempts>>
authVars == <<authWin, on_success, raised, btn_signin, btn_signup, sub, events, registered>>
dashVars == <<dashWin, dash_username, heading, on_logout, dashArgs, dashOp, dashEvents>>

\* longest text typed into an entry field or passed as a display name
MaxLen == 2

\* characters that str.strip() removes
Whitespace == {" "}

\* characters a text is made of
Char == {"a"} \cup Whitespace

RECURSIVE StrUpTo(_)
StrUpTo(n) ==
    IF n = 0 THEN {<<>>}
    ELSE LET shorter == StrUpTo(n - 1)
         IN  shorter \cup {Append(s, c) : s \in {t \in shorter : Len(t) = n - 1}, c \in Char}

\* every text of at most MaxLen characters
Str == StrUpTo(MaxLen)

\* Python truthiness of a str: the empty string is falsy
Truthy(s) == Len(s) > 0

\* Python's `a and b` on two str values: a when a is falsy, otherwise b
PyAnd(a, b) == IF Truthy(a) THEN b ELSE a

RECURSIVE lstrip(_)
lstrip(s) ==
    IF s = <<>> THEN s
    ELSE IF Head(s) \in Whitespace THEN lstrip(Tail(s)) ELSE s

RECURSIVE rstrip(_)
rstrip(s) ==
    IF s = <<>> THEN s
    ELSE IF s[Len(s)] \in Whitespace THEN rstrip(SubSeq(s, 1, Len(s) - 1)) ELSE s

\* str.strip(): surrounding whitespace removed
strip(s) == rstrip(lstrip(s))

-----------------------------------------------------------------------------
(* database/db.py *)

\* what mysql.connector.connect can do: return a connection, raise
\* mysql.connector.Error (a connection failure), or raise another exception
ConnectorOutcomes == {"connected", "Error", "Exception"}

\* mutation of connect: the failure is not caught
connect_uncaught(outcome, conn) ==
    IF outcome = "connected"
    THEN [connection |-> "open", ret |-> "True", attempts |-> 1]
    ELSE [connection |-> conn, ret |-> "raised", attempts |-> 1]

\* DatabaseHelper.connect: one call of mysql.connector.connect; the
\* connection is stored and True returned, `except Error` returns False,
\* any other exception leaves the method
connect(outcome, conn) ==
    IF outcome = "connected"
    THEN [connection |-> "open", ret |-> "True", attempts |-> 1]
    ELSE IF outcome = "Error"
         THEN [connection |-> conn, ret |-> "False", attempts |-> 1]
         ELSE [connection |-> conn, ret |-> "raised", attempts |-> 1]

\* DatabaseHelper.disconnect: closes a connection that is connected
disconnect(conn) == IF conn = "open" THEN "closed" ELSE conn

-----------------------------------------------------------------------------
(* ui/auth.py: AuthService *)

\* what the name DatabaseHelper is bound to in ui/auth.py: the class of
\* database/db.py, or `object` when that import failed
DbClasses == {"DatabaseHelper", "object"}

\* hasattr(self.db, "connect")
hasattr_connect(cls) == cls = "DatabaseHelper"

\* mutation of ensure_ready: no try around the call of connect()
ensure_ready_uncaught(cls, outcome) ==
    IF hasattr_connect(cls)
    THEN LET r == connect(outcome, "None")
         IN  [connection |-> r.connection, ret |-> r.ret, attempts |-> r.attempts,
              raised |-> r.ret = "raised"]
    ELSE [connection |-> "None", ret |-> "none", attempts |-> 0, raised |-> FALSE]

\* AuthService.ensure_ready: connect() when the helper has it; every
\* Exception is caught and printed
ensure_ready(cls, outcome) ==
    IF hasattr_connect(cls)
    THEN LET r == connect(outcome, "None")
         IN  [connection |-> r.connection, ret |-> r.ret, attempts |-> r.attempts,
              raised |-> FALSE]
    ELSE [connection |-> "None", ret |-> "none", attempts |-> 0, raised |-> FALSE]

\* mutation of validate_credentials: the password is not looked at
validate_credentials_user_only(user, pw) == Truthy(user)

\* AuthService.validate_credentials: bool(username and password)
validate_credentials(user, pw) == Truthy(PyAnd(user, pw))

\* mutation of register_user: the emptiness check is inverted
register_user_inverted(user, pw) ==
    IF Truthy(user) \/ Truthy(pw) THEN FALSE
    ELSE TRUE

\* mutation of register_user: a username is registered only once
register_user_unique(user, pw) ==
    IF ~Truthy(user) \/ ~Truthy(pw) THEN FALSE
    ELSE user \notin registered

\* AuthService.register_user: False when a field is empty, otherwise True
register_user(user, pw) ==
    IF ~Truthy(user) \/ ~Truthy(pw) THEN FALSE
    ELSE TRUE

-----------------------------------------------------------------------------
(* ui/auth.py: AuthWindow *)

\* one thing a handler did: a dialog (with its title), a service call or a
\* callback (with the username passed), a widget operation
Ev(ev, title, arg) == [ev |-> ev, title |-> title, arg |-> arg]

\* whether a handler's events destroy its window
Destroys(evs) == \E i \in 1..Len(evs) : evs[i].ev = "destroy"

\* the record of a submission when none has been made
NoSubmission ==
    [kind |-> "none", user |-> <<>>, pass |-> <<>>, confirm |-> <<>>,
     known |-> FALSE, view |-> "in"]

\* AuthWindow._highlight_tab
_highlight_tab(active) ==
    IF active = "in"
    THEN [btn_signin |-> "Accent.TButton", btn_signup |-> "Ghost.TButton"]
    ELSE [btn_signin |-> "Ghost.TButton", btn_signup |-> "Accent.TButton"]

\* mutation of missing_info: only the username is required
missing_info_user_only(u, p) == ~Truthy(u)

\* `not username or not password`, the first check of both handlers
missing_info(u, p) == ~Truthy(u) \/ ~Truthy(p)

\* mutation of passwords_differ: the confirmation is not compared
passwords_differ_never(password, confirm) == FALSE

\* `password != confirm` in _handle_signup
passwords_differ(password, confirm) == password # confirm

\* mutation of signin_ok: the window is destroyed before the callback runs
signin_ok_destroy_first(u, cb) ==
    <<Ev("showinfo", "Welcome", u), Ev("destroy", "", <<>>)>>
    \o (IF cb THEN <<Ev("on_success", "", u)>> ELSE <<>>)

\* the `if ok:` branch of _handle_signin
signin_ok(u, cb) ==
    <<Ev("showinfo", "Welcome", u)>>
    \o (IF cb THEN <<Ev("on_success", "", u)>> ELSE <<>>)
    \o <<Ev("destroy", "", <<>>)>>

\* AuthWindow.__init__: the window is created, the service made ready, the
\* two frames built and the sign-in view shown; an exception that left
\* ensure_ready would leave the constructor before the frames are built
AuthWindow__init__(cb, cls, outcome) ==
    LET r == ensure_ready(cls, outcome)
        t == IF r.raised
             THEN [btn_signin |-> btn_signin, btn_signup |-> btn_signup]
             ELSE _highlight_tab("in")
    IN  /\ authWin' = IF r.raised THEN "unbuilt" ELSE "open"
        /\ on_success' = cb
        /\ dbClass' = cls
        /\ connection' = r.connection
        /\ connectorOutcome' = IF hasattr_connect(cls) THEN outcome ELSE "none"
        /\ connectRet' = r.ret
        /\ connectAttempts' = r.attempts
        /\ raised' = "in"
        /\ btn_signin' = t.btn_signin
        /\ btn_signup' = t.btn_signup
        /\ sub' = NoSubmission
        /\ events' = <<>>
        /\ registered' = {}

\* AuthWindow.show_signin (the Sign In tab button, and after a sign-up)
show_signin ==
    /\ pc = "mainloop" /\ authWin = "open"
    /\ raised' = "in"
    /\ btn_signin' = _highlight_tab("in").btn_signin
    /\ btn_signup' = _highlight_tab("in").btn_signup
    /\ UNCHANGED <<pc, entry, rootState, dbVars, authWin, on_success, sub, events,
                   registered, dashVars, svc>>

\* AuthWindow.show_signup (the Sign Up tab button)
show_signup ==
    /\ pc = "mainloop" /\ authWin = "open"
    /\ raised' = "up"
    /\ btn_signin' = _highlight_tab("up").btn_signin
    /\ btn_signup' = _highlight_tab("up").btn_signup
    /\ UNCHANGED <<pc, entry, rootState, dbVars, authWin, on_success, sub, events,
                   registered, dashVars, svc>>

\* Neither handler looks at which frame is on top: the button of the lowered
\* frame stays mapped and can be reached by keyboard traversal, so both
\* handlers can run in either view.

\* AuthWindow._handle_signin, with si_user and si_pass holding rawUser and rawPass
_handle_signin ==
    /\ pc = "mainloop" /\ authWin = "open"
    /\ pc' = "handled"
    /\ \E rawUser \in Str, rawPass \in Str :
        LET u == strip(rawUser)
            p == strip(rawPass)
            ok == validate_credentials(u, p)
            call == Ev("validate_credentials", "", u)
        IN  /\ sub' = [kind |-> "signin", user |-> rawUser, pass |-> rawPass,
                       confirm |-> <<>>, known |-> u \in registered, view |-> raised]
            /\ IF missing_info(u, p)
               THEN /\ events' = <<Ev("showerror", "Missing info", <<>>)>>
                    /\ authWin' = authWin
               ELSE IF ok
                    THEN /\ events' = <<call>> \o signin_ok(u, on_success)
                         /\ authWin' = IF Destroys(signin_ok(u, on_success))
                                       THEN "destroyed" ELSE authWin
                    ELSE /\ events' = <<call, Ev("showerror", "Authentication failed", <<>>)>>
                         /\ authWin' = authWin
    /\ UNCHANGED <<entry, rootState, dbVars, on_success, raised, btn_signin,
                   btn_signup, registered, dashVars, svc>>

\* AuthWindow._handle_signup, with su_user, su_pass and su_confirm holding
\* rawUser, rawPass and rawConfirm
_handle_signup ==
    /\ pc = "mainloop" /\ authWin = "open"
    /\ pc' = "handled"
    /\ \E rawUser \in Str, rawPass \in Str, rawConfirm \in Str :
        LET u == strip(rawUser)
            p == strip(rawPass)
            c == strip(rawConfirm)
            created == register_user(u, p)
            call == Ev("register_user", "", u)
        IN  /\ sub' = [kind |-> "signup", user |-> rawUser, pass |-> rawPass,
                       confirm |-> rawConfirm, known |-> u \in registered,
                       view |-> raised]
            /\ IF missing_info(u, p)
               THEN /\ events' = <<Ev("showerror", "Missing info", <<>>)>>
                    /\ UNCHANGED <<raised, btn_signin, btn_signup, registered>>
               ELSE IF passwords_differ(p, c)
                    THEN /\ events' = <<Ev("showerror", "Mismatch", <<>>)>>
                         /\ UNCHANGED <<raised, btn_signin, btn_signup, registered>>
                    ELSE IF created
                         THEN /\ events' = <<call, Ev("showinfo", "Success", <<>>),
                                             Ev("show_signin", "", <<>>)>>
                              /\ raised' = "in"
                              /\ btn_signin' = _highlight_tab("in").btn_signin
                              /\ btn_signup' = _highlight_tab("in").btn_signup
                              /\ registered' = registered \cup {u}
                         ELSE /\ events' = <<call, Ev("showerror",
                                                      "Could not create account", <<>>)>>
                              /\ UNCHANGED <<raised, btn_signin, btn_signup, registered>>
    /\ UNCHANGED <<entry, rootState, dbVars, authWin, on_success, dashVars, svc>>

-----------------------------------------------------------------------------
(* ui/dashboard.py *)

\* the default of the username parameter of Dashboard and open_dashboard
DefaultUsername == <<"U", "s", "e", "r">>

\* the arguments open_dashboard can be given for username: none, or one text
DashArgs == {<<>>} \cup {<<n>> : n \in Str}

\* mutation of WelcomeText: the name is trimmed before it is shown
WelcomeText_trimmed(name) ==
    <<"W", "e", "l", "c", "o", "m", "e", ",", " ">> \o strip(name) \o <<"!">>

\* f"Welcome, {self.username}!"
WelcomeText(name) ==
    <<"W", "e", "l", "c", "o", "m", "e", ",", " ">> \o name \o <<"!">>

\* the labels of the navigation grid
NavItems == {"Room Management", "Bookings", "Guests", "Staff", "Billing", "Reports"}

\* mutation of logout_events: without a callback the window stays open, and
\* the callback runs after the window is gone
logout_events_late(cb) ==
    IF cb THEN <<Ev("destroy", "", <<>>), Ev("on_logout", "", <<>>)>> ELSE <<>>

\* the body of Dashboard._handle_logout
logout_events(cb) ==
    (IF cb THEN <<Ev("on_logout", "", <<>>)>> ELSE <<>>) \o <<Ev("destroy", "", <<>>)>>

\* Dashboard.__init__ through open_dashboard: the window with its header,
\* welcome section and navigation grid
Dashboard__init__(args, cb) ==
    LET name == IF args = <<>> THEN DefaultUsername ELSE args[1]
    IN  /\ dashWin' = "open"
        /\ dashArgs' = args
        /\ dash_username' = name
        /\ on_logout' = cb
        /\ heading' = WelcomeText(name)
        /\ dashOp' = "none"
        /\ dashEvents' = <<>>

\* Dashboard._open_room_management and the five handlers like it: a dialog
_open_module ==
    /\ pc = "mainloop" /\ dashWin = "open"
    /\ pc' = "handled"
    /\ dashOp' = "open_module"
    /\ \E label \in NavItems : dashEvents' = <<Ev("showinfo", label, <<>>)>>
    /\ UNCHANGED <<entry, rootState, dbVars, authVars, dashWin, dash_username,
                   heading, on_logout, dashArgs, svc>>

\* Dashboard._handle_logout
_handle_logout ==
    /\ pc = "mainloop" /\ dashWin = "open"
    /\ pc' = "handled"
    /\ dashOp' = "logout"
    /\ dashEvents' = logout_events(on_logout)
    /\ dashWin' = IF Destroys(logout_events(on_logout)) THEN "destroyed" ELSE dashWin
    /\ UNCHANGED <<entry, rootState, dbVars, authVars, dash_username, heading,
                   on_logout, dashArgs, svc>>

-----------------------------------------------------------------------------
(* the scripts *)

\* the names the module ui/auth.py defines
AuthModuleNames ==
    {"tk", "ttk", "messagebox", "Optional", "Callable", "DatabaseHelper",
     "apply_styles", "AuthService", "AuthWindow", "open_auth_window"}

\* main.py: `from ui.auth import LoginWindow`, then main(): a withdrawn
\* root, the login window, the event loop
RunMain ==
    /\ pc = "start"
    /\ entry' = "main"
    /\ IF "LoginWindow" \in AuthModuleNames
       THEN /\ rootState' = "withdrawn"
            /\ \E cls \in DbClasses, outcome \in ConnectorOutcomes :
                   AuthWindow__init__(FALSE, cls, outcome)
            /\ pc' = IF authWin' = "open" THEN "mainloop" ELSE "Exception"
       ELSE /\ pc' = "ImportError"
            /\ UNCHANGED <<rootState, dbVars, authVars>>
    /\ UNCHANGED <<dashVars, svc>>

\* ui/auth.py run as a script, and open_auth_window called by a host: a
\* withdrawn root, the window, the event loop
RunAuth(cb, cls, outcome) ==
    /\ pc = "start"
    /\ entry' = "auth"
    /\ rootState' = "withdrawn"
    /\ AuthWindow__init__(cb, cls, outcome)
    /\ pc' = IF authWin' = "open" THEN "mainloop" ELSE "Exception"
    /\ UNCHANGED <<dashVars, svc>>

\* ui/dashboard.py run as a script, and open_dashboard called by a host
RunDashboard(args, cb) ==
    /\ pc = "start"
    /\ entry' = "dashboard"
    /\ pc' = "mainloop"
    /\ rootState' = "withdrawn"
    /\ Dashboard__init__(args, cb)
    /\ UNCHANGED <<dbVars, authVars, svc>>

\* DatabaseHelper(): a helper of its own, not yet connected
RunDb ==
    /\ pc = "start"
    /\ entry' = "db"
    /\ pc' = "running"
    /\ dbClass' = "DatabaseHelper"
    /\ connection' = "None"
    /\ UNCHANGED <<rootState, connectorOutcome, connectRet, connectAttempts, authVars,
                   dashVars, svc>>

\* DatabaseHelper.connect called on that helper
DbConnect(outcome) ==
    LET r == connect(outcome, connection)
    IN  /\ pc = "running" /\ entry = "db"
        /\ connection' = r.connection
        /\ connectorOutcome' = outcome
        /\ connectRet' = r.ret
        /\ connectAttempts' = r.attempts
        /\ UNCHANGED <<pc, entry, rootState, dbClass, authVars, dashVars, svc>>

\* DatabaseHelper.disconnect called on that helper
DbDisconnect ==
    /\ pc = "running" /\ entry = "db"
    /\ connection' = disconnect(connection)
    /\ connectorOutcome' = "none"
    /\ connectRet' = "none"
    /\ connectAttempts' = 0
    /\ UNCHANGED <<pc, entry, rootState, dbClass, authVars, dashVars, svc>>

\* the record of a direct service call when none has been made
NoCall == [op |-> "none", user |-> <<>>, pw |-> <<>>, ret |-> FALSE]

\* AuthService(): a service of its own, its helper not yet connected
RunService(cls) ==
    /\ pc = "start"
    /\ entry' = "service"
    /\ pc' = "running"
    /\ dbClass' = cls
    /\ connection' = "None"
    /\ UNCHANGED <<rootState, connectorOutcome, connectRet, connectAttempts, authVars,
                   dashVars, svc>>

\* AuthService.ensure_ready called on that service
ServiceEnsureReady(outcome) ==
    LET r == ensure_ready(dbClass, outcome)
    IN  /\ pc = "running" /\ entry = "service"
        /\ connection' = IF hasattr_connect(dbClass)
                         THEN connect(outcome, connection).connection
                         ELSE connection
        /\ connectorOutcome' = IF hasattr_connect(dbClass) THEN outcome ELSE "none"
        /\ connectRet' = r.ret
        /\ connectAttempts' = r.attempts
        /\ UNCHANGED <<pc, entry, rootState, dbClass, authVars, dashVars, svc>>

\* AuthService.validate_credentials called on that service
ServiceValidate ==
    /\ pc = "running" /\ entry = "service"
    /\ \E user \in Str, pw \in Str :
          svc' = [op |-> "validate_credentials", user |-> user, pw |-> pw,
                  ret |-> validate_credentials(user, pw)]
    /\ UNCHANGED <<pc, entry, rootState, dbVars, authVars, dashVars>>

\* AuthService.register_user called on that service
ServiceRegister ==
    /\ pc = "running" /\ entry = "service"
    /\ \E user \in Str, pw \in Str :
          svc' = [op |-> "register_user", user |-> user, pw |-> pw,
                  ret |-> register_user(user, pw)]
    /\ UNCHANGED <<pc, entry, rootState, dbVars, authVars, dashVars>>

\* root.mainloop(): the handler has returned and the loop waits for the next
\* event; what is on record of the finished handler is dropped
mainloop ==
    /\ pc = "handled"
    /\ pc' = "mainloop"
    /\ sub' = NoSubmission
    /\ events' = <<>>
    /\ dashOp' = "none"
    /\ dashEvents' = <<>>
    /\ UNCHANGED <<entry, rootState, dbVars, authWin, on_success, raised, btn_signin,
                   btn_signup, registered, dashWin, dash_username, heading, on_logout,
                   dashArgs, svc>>

Init ==
    /\ pc = "start"
    /\ entry = "none"
    /\ rootState = "none"
    /\ dbClass = "none"
    /\ connection = "None"
    /\ connectorOutcome = "none"
    /\ connectRet = "none"
    /\ connectAttempts = 0
    /\ authWin = "none"
    /\ on_success = FALSE
    /\ raised = "in"
    /\ btn_signin = "Ghost.TButton"
    /\ btn_signup = "Ghost.TButton"
    /\ sub = NoSubmission
    /\ events = <<>>
    /\ registered = {}
    /\ dashWin = "none"
    /\ dash_username = <<>>
    /\ heading = <<>>
    /\ on_logout = FALSE
    /\ dashArgs = <<>>
    /\ dashOp = "none"
    /\ dashEvents = <<>>
    /\ svc = NoCall

Next ==
    \/ RunMain
    \/ \E cb \in BOOLEAN, cls \in DbClasses, outcome \in ConnectorOutcomes :
          RunAuth(cb, cls, outcome)
    \/ \E args \in DashArgs, cb \in BOOLEAN : RunDashboard(args, cb)
    \/ RunDb
    \/ \E outcome \in ConnectorOutcomes : DbConnect(outcome)
    \/ DbDisconnect
    \/ \E cls \in DbClasses : RunService(cls)
    \/ \E outcome \in ConnectorOutcomes : ServiceEnsureReady(outcome)
    \/ ServiceValidate
    \/ ServiceRegister
    \/ show_signin
    \/ show_signup
    \/ _handle_signin
    \/ _handle_signup
    \/ _open_module
    \/ _handle_logout
    \/ mainloop

Spec == Init /\ [][Next]_vars

-----------------------------------------------------------------------------
(* what a finished handler has on record *)

\* whether the events hold one of kind ev
Has(evs, ev) == \E i \in 1..Len(evs) : evs[i].ev = ev

\* whether the events hold a dialog of kind ev with that title
HasDialog(evs, ev, title) ==
    \E i \in 1..Len(evs) : evs[i].ev = ev /\ evs[i].title = title

\* the positions at which the events hold one of kind ev
Positions(evs, ev) == {i \in 1..Len(evs) : evs[i].ev = ev}

\* a sign-up submission was turned down: an error dialog, no success dialog,
\* no call of register_user, and the view that was up is still up
SignupRejected ==
    /\ Has(events, "showerror")
    /\ ~Has(events, "showinfo")
    /\ ~Has(events, "register_user")
    /\ ~Has(events, "show_signin")
    /\ raised = sub.view

\* a sign-up submission reported success
SignupSucceeded == HasDialog(events, "showinfo", "Success")

-----------------------------------------------------------------------------
(* C1 *)

\* C1: validate_credentials(username, password) is true exactly when both
\* arguments are non-empty, whatever the state of the service's database
\* helper is.
C1_ValidateCredentials ==
    svc.op = "validate_credentials" =>
        svc.ret = (svc.user # <<>> /\ svc.pw # <<>>)

\* validate_credentials returned true although the connection had failed
C1_Witness ==
    /\ svc.op = "validate_credentials"
    /\ svc.ret
    /\ connectRet = "False"

-----------------------------------------------------------------------------
(* C2 *)

\* C2 as stated: a sign-up whose password and confirmation differ as they
\* were entered is turned down without a call of register_user.
C2_Original ==
    (sub.kind = "signup" /\ sub.pass # sub.confirm) => SignupRejected

\* C2 as amended: a sign-up whose password and confirmation differ after
\* surrounding whitespace is trimmed from both is turned down (an error
\* dialog, no success reported, the view not switched) and register_user is
\* not called.
C2_MismatchRejected ==
    (sub.kind = "signup" /\ strip(sub.pass) # strip(sub.confirm)) => SignupRejected

\* a sign-up with a username and a password was turned down for its
\* confirmation alone
C2_Witness ==
    /\ sub.kind = "signup"
    /\ strip(sub.user) # <<>>
    /\ strip(sub.pass) # <<>>
    /\ strip(sub.pass) # strip(sub.confirm)
    /\ HasDialog(events, "showerror", "Mismatch")

-----------------------------------------------------------------------------
(* C3 *)

\* C3 as stated: a sign-up whose password and confirmation match and are
\* non-empty reports success, whatever the username field holds.
C3_Original ==
    (sub.kind = "signup" /\ sub.pass = sub.confirm /\ sub.pass # <<>>)
        => SignupSucceeded

\* C3 as amended: a sign-up whose password and confirmation are equal after
\* trimming reports success when the trimmed password and the trimmed
\* username are both non-empty.
C3_MatchSucceeds ==
    (/\ sub.kind = "signup"
     /\ strip(sub.pass) = strip(sub.confirm)
     /\ strip(sub.pass) # <<>>
     /\ strip(sub.user) # <<>>) => SignupSucceeded

\* a sign-up succeeded whose password and confirmation were entered
\* differently and are equal once trimmed
C3_Witness ==
    /\ sub.kind = "signup"
    /\ sub.pass # sub.confirm
    /\ strip(sub.pass) = strip(sub.confirm)
    /\ SignupSucceeded
    /\ raised = "in"

-----------------------------------------------------------------------------
(* C4 *)

\* C4: once main.py has been run, the root window is hidden and a login
\* window is open, and the script has not died of an error on the way.
C4_MainOpensLogin ==
    entry = "main" =>
        /\ pc # "ImportError"
        /\ rootState = "withdrawn"
        /\ authWin = "open"

-----------------------------------------------------------------------------
(* C5 *)

\* a sign-in submission whose trimmed username and password are non-empty
SigninComplete ==
    /\ sub.kind = "signin"
    /\ strip(sub.user) # <<>>
    /\ strip(sub.pass) # <<>>

\* C5: a sign-in submission whose trimmed username and password are
\* non-empty invokes on_success, when one was given, exactly once, with the
\* trimmed username, and destroys the window only after that; no other
\* submission, and no window without the callback, invokes on_success.
C5_OnSuccess ==
    /\ (SigninComplete /\ on_success) =>
          /\ Cardinality(Positions(events, "on_success")) = 1
          /\ \A i \in Positions(events, "on_success") :
                /\ events[i].arg = strip(sub.user)
                /\ \A j \in Positions(events, "destroy") : i < j
          /\ Has(events, "destroy")
          /\ authWin = "destroyed"
    /\ ~(SigninComplete /\ on_success) => ~Has(events, "on_success")

\* on_success was invoked for a username that was entered with surrounding
\* whitespace
C5_Witness ==
    /\ SigninComplete
    /\ on_success
    /\ sub.user # strip(sub.user)
    /\ Has(events, "on_success")
    /\ authWin = "destroyed"

-----------------------------------------------------------------------------
(* C6 *)

\* C6: connect() answers a connection failure (mysql.connector.Error) with
\* False and does not raise it; it answers True only when the connector
\* returned a connection, which is then stored; and it calls the connector
\* once.
C6_ConnectReportsFailure ==
    /\ connectorOutcome = "Error" => connectRet = "False"
    /\ connectRet = "True" => (connectorOutcome = "connected" /\ connection = "open")
    /\ connectorOutcome # "none" => connectAttempts = 1

\* a connection failure was answered with False, the connection of an
\* earlier call still stored
C6_Witness ==
    /\ entry = "db"
    /\ connectorOutcome = "Error"
    /\ connectRet = "False"
    /\ connectAttempts = 1
    /\ connection # "None"

-----------------------------------------------------------------------------
(* C7 *)

\* C7: a logout closes the dashboard window, with or without a callback;
\* a callback that was given runs exactly once, and before the window is
\* closed.
C7_Logout ==
    dashOp = "logout" =>
        /\ dashWin = "destroyed"
        /\ Has(dashEvents, "destroy")
        /\ on_logout =>
              /\ Cardinality(Positions(dashEvents, "on_logout")) = 1
              /\ \A i \in Positions(dashEvents, "on_logout") :
                    \A j \in Positions(dashEvents, "destroy") : i < j
        /\ ~on_logout => ~Has(dashEvents, "on_logout")

\* a logout with a callback has run
C7_Witness ==
    /\ dashOp = "logout"
    /\ on_logout
    /\ Has(dashEvents, "on_logout")
    /\ dashWin = "destroyed"

-----------------------------------------------------------------------------
(* C8 *)

\* a sign-in submission was accepted
SigninSucceeded == HasDialog(events, "showinfo", "Welcome")

\* C8: whatever was submitted before, a sign-in is accepted exactly when its
\* trimmed username and password are non-empty, and a sign-up succeeds
\* exactly when its trimmed username and password are non-empty and the
\* trimmed confirmation equals the password; so a username that was never
\* registered signs in, and one that is registered is registered again.
C8_Stateless ==
    /\ sub.kind = "signin" =>
          (SigninSucceeded <=> (strip(sub.user) # <<>> /\ strip(sub.pass) # <<>>))
    /\ sub.kind = "signup" =>
          (SignupSucceeded <=>
              /\ strip(sub.user) # <<>>
              /\ strip(sub.pass) # <<>>
              /\ strip(sub.pass) = strip(sub.confirm))

\* a username that had been registered before was registered again
C8_Witness ==
    /\ sub.kind = "signup"
    /\ sub.known
    /\ SignupSucceeded
    /\ strip(sub.user) \in registered

-----------------------------------------------------------------------------
(* C9 *)

\* whether text holds part as a run of consecutive characters
Contains(text, part) ==
    \E i \in 1..(Len(text) - Len(part) + 1) :
        SubSeq(text, i, i + Len(part) - 1) = part

\* C9: the welcome heading of an opened dashboard contains the display name
\* it was opened with, character for character, and the name "User" when
\* it was opened without one.
C9_WelcomeHeading ==
    dashWin # "none" =>
        /\ dashArgs # <<>> => Contains(heading, dashArgs[1])
        /\ dashArgs = <<>> => Contains(heading, DefaultUsername)

\* a dashboard was opened with a name that ends in whitespace
C9_Witness ==
    /\ dashWin = "open"
    /\ dashArgs # <<>>
    /\ Len(dashArgs[1]) > 0
    /\ rstrip(dashArgs[1]) # dashArgs[1]
    /\ Contains(heading, dashArgs[1])

-----------------------------------------------------------------------------
(* C10 *)

\* C10: a sign-in or sign-up submission whose username or password is empty
\* once trimmed shows the missing-information error and does nothing else:
\* no service call, no on_success, no switch of view, and the window stays
\* open; in a sign-up this holds whether or not the confirmation matches.
C10_MissingInfo ==
    (/\ sub.kind \in {"signin", "signup"}
     /\ (strip(sub.user) = <<>> \/ strip(sub.pass) = <<>>)) =>
        /\ events = <<Ev("showerror", "Missing info", <<>>)>>
        /\ authWin = "open"
        /\ raised = sub.view
        /\ btn_signin = _highlight_tab(sub.view).btn_signin
        /\ btn_signup = _highlight_tab(sub.view).btn_signup

\* a sign-up on the sign-up view with a username, no password and a
\* confirmation that differs from it got the missing-information error
C10_Witness ==
    /\ sub.kind = "signup"
    /\ sub.view = "up"
    /\ strip(sub.user) # <<>>
    /\ strip(sub.pass) = <<>>
    /\ strip(sub.confirm) # <<>>
    /\ events = <<Ev("showerror", "Missing info", <<>>)>>

-----------------------------------------------------------------------------
(* C11 *)

\* the connection was not made while the window was opened: connect()
\* returned False or raised, or the helper has no connect method
ConnectionFailed == dbClass = "object" \/ connectRet \in {"False", "raised"}

\* what a submission with these fields does when the connection was made:
\* the dialogs, service calls, callback and widget operations, in order
AsWhenConnected(s, cb) ==
    LET u == strip(s.user)
        p == strip(s.pass)
        c == strip(s.confirm)
    IN  IF u = <<>> \/ p = <<>>
        THEN <<Ev("showerror", "Missing info", <<>>)>>
        ELSE IF s.kind = "signin"
             THEN <<Ev("validate_credentials", "", u), Ev("showinfo", "Welcome", u)>>
                  \o (IF cb THEN <<Ev("on_success", "", u)>> ELSE <<>>)
                  \o <<Ev("destroy", "", <<>>)>>
             ELSE IF p # c
                  THEN <<Ev("showerror", "Mismatch", <<>>)>>
                  ELSE <<Ev("register_user", "", u), Ev("showinfo", "Success", <<>>),
                         Ev("show_signin", "", <<>>)>>

\* C11: when the connection fails while the auth window is opened, the
\* window opens all the same, on the sign-in view and with the script alive,
\* and every later submission does what it does after a connection that
\* was made.
C11_DbFailureHarmless ==
    entry = "auth" =>
        /\ authWin \in {"open", "destroyed"}
        /\ pc \in {"mainloop", "handled"}
        /\ sub.kind \in {"signin", "signup"} =>
              /\ events = AsWhenConnected(sub, on_success)
              /\ authWin = (IF Has(events, "destroy") THEN "destroyed" ELSE "open")
              /\ raised = (IF Has(events, "show_signin") THEN "in" ELSE sub.view)

\* connect() raised inside ensure_ready while the window was opened, and a
\* later sign-in went through
C11_Witness ==
    /\ entry = "auth"
    /\ connectRet = "raised"
    /\ ConnectionFailed
    /\ sub.kind = "signin"
    /\ Has(events, "validate_credentials")
    /\ authWin = "destroyed"

-----------------------------------------------------------------------------
(* C12 *)

\* the style a tab button has when its view is, or is not, the raised one
TabStyle(isRaised) == IF isRaised THEN "Accent.TButton" ELSE "Ghost.TButton"

\* in an open auth window one of the two views is the raised one, and its
\* tab button has the accent style, the other the ghost style
C12_TabsFollowView ==
    authWin = "open" =>
        /\ raised \in {"in", "up"}
        /\ btn_signin = TabStyle(raised = "in")
        /\ btn_signup = TabStyle(raised = "up")

\* a successful sign-up leaves the window on the sign-in view
C12_SuccessShowsSignin ==
    (sub.kind = "signup" /\ SignupSucceeded) => raised = "in"

\* a sign-up that was not successful leaves the window on the sign-up view
C12_RejectedStaysOnSignup ==
    (sub.kind = "signup" /\ ~SignupSucceeded) => raised = "up"

\* show_signin and show_signup are idempotent: a step taken with the target
\* view already raised changes nothing, and the window starts on sign-in
C12_TabsIdempotent ==
    [][/\ (authWin = "none" /\ authWin' = "open") => raised' = "in"
       /\ (pc = "mainloop" /\ pc' = "mainloop" /\ authWin = "open") =>
             /\ raised' = raised => (btn_signin' = btn_signin /\ btn_signup' = btn_signup)
             /\ raised' \in {"in", "up"}]_vars

\* C12: in an open auth window exactly one view is raised and the accent
\* tab is the one of the raised view; a successful sign-up leaves the window
\* on the sign-in view and a rejected sign-up leaves it on the sign-up view.
C12_ViewInvariant ==
    /\ C12_TabsFollowView
    /\ C12_SuccessShowsSignin
    /\ C12_RejectedStaysOnSignup

====
